---------------------------- MODULE Spec2Model ----------------------------
(***************************************************************************)
(* go-gcp-auditor: the audit run (internal/service/audit.go) and the       *)
(* per-project service worker pool (internal/repository/gcp/service.go).   *)
(*                                                                         *)
(* Three state machines share this module.                                 *)
(*   Spec / LiveSpec : AuditService.Audit, its per-project goroutines, the *)
(*                     semaphore channel, the mutex and the errgroup.  The *)
(*                     service repository is the domain.ServiceRepository  *)
(*                     interface: a call to ListServices is a step that    *)
(*                     starts and a step that returns an answer.           *)
(*   SpecLS / LiveSpecLS : one call of ServiceRepository.ListServices with *)
(*                     its workers, dispatcher and collector goroutines    *)
(*                     and the two buffered channels.                      *)
(*   SpecStats       : calculateStatistics applied to a report, twice.     *)
(* The audit run ends with the tail of the audit command, runAudit.        *)
(***************************************************************************)
EXTENDS Integers, Sequences, FiniteSets, TLC

(* ----------------------------- bounds ---------------------------------- *)
\* longest project list ListProjects answers with
MaxProjects == 2
\* the n handed to config.WithConcurrency (0 leaves the default)
ConcurrencyOptions == {0, 1, 2}

(* ------------------------- program constants --------------------------- *)
\* config.NewConfig: Concurrency: 3
DefaultConcurrency == 3

\* An error value: its message, the project it names and the error it wraps.
Error(msg, arg, cause) == [msg |-> msg, arg |-> arg, cause |-> cause]

\* a nil error
Nil == Error("nil", <<>>, "")

\* ctx.Err() of a cancelled context
ContextCanceled == "context canceled"

\* a nil *domain.Usage
NilUsage == [IsNil |-> TRUE]

(* ------------------------------ helpers -------------------------------- *)
\* m[k] = v on a Go map represented as a function
MapPut(m, k, v) == [x \in (DOMAIN m) \cup {k} |-> IF x = k THEN v ELSE m[x]]

EmptyMap == [x \in {} |-> Nil]

\* all sequences over S of length at most n
SeqsUpTo(S, n) == UNION {[1..k -> S] : k \in 0..n}

(* ------------------------------ projects ------------------------------- *)
\* Project IDs are strings; they are kept as tuples of characters so that
\* the system pattern can be matched against them.
Digits == {"0", "1", "2", "3", "4", "5", "6", "7", "8", "9"}

ProjectIDs ==
  { <<"a">>, <<"b">>, <<"s", "y", "s", "-", "1">> }

\* var systemPattern = regexp.MustCompile(`^sys-\d+`)
systemPatternMatches(id) ==
  /\ Len(id) >= 5
  /\ SubSeq(id, 1, 4) = <<"s", "y", "s", "-">>
  /\ id[5] \in Digits

\* func (r *ProjectRepository) IsValidProject(project domain.Project) bool
IsValidProject(project) == ~systemPatternMatches(project.ID)

Project(id) == [ID |-> id]

\* the answers ListProjects can give: any list, IDs possibly repeated
ProjectLists == SeqsUpTo({Project(id) : id \in ProjectIDs}, MaxProjects)

ErrListProjects == Error("failed to list projects", <<>>, "")

(* ------------------------------ services ------------------------------- *)
UsageStatusSuccess == "SUCCESS"
UsageStatusNoAccess == "NO_ACCESS"
UsageStatusError == "ERROR"
\* the zero value of UsageStatus
UsageStatusUnset == ""

Usage(count, status) == [RequestCount |-> count, Status |-> status]

\* domain.Service; Usage is NilUsage (a nil pointer) or a Usage.  A service
\* name is a string kept as a tuple of pieces, so that the "services/" prefix
\* can be found in it; Title plays no part in the run and is left out.
Service(name, state, projectID, usage) ==
  [Name |-> name, State |-> state, ProjectID |-> projectID, Usage |-> usage]

\* the zero value of domain.Service
ZeroService == Service(<<>>, "", <<>>, NilUsage)

\* The slices a ServiceRepository may answer with for a project, as the
\* audit run sees them through the interface.
AuditServiceSlices(id) ==
  { <<>>,
    << Service(<<"compute">>, "ENABLED", id, Usage(0, UsageStatusSuccess)),
       Service(<<"storage">>, "ENABLED", id, Usage(1, UsageStatusNoAccess)) >> }

\* listAllServices: fmt.Errorf("failed to list services for project %s: %w", ...)
ErrListServices(id) == Error("failed to list services for project", id, "")
\* ListServices: fmt.Errorf("error processing services: %w", err)
ErrProcessing(cause) == Error("error processing services", <<>>, cause)

\* what a call ListServices(ctx, id, period) may return: (services, err)
ListServicesAnswers(id, done) ==
  { [services |-> s, err |-> Nil] : s \in AuditServiceSlices(id) }
    \cup { [services |-> <<>>, err |-> ErrListServices(id)] }
    \cup (IF done THEN { [services |-> <<>>, err |-> ErrProcessing(ContextCanceled)] } ELSE {})

\* time.Since(projectStart): the run only stores the reading, so a single
\* value stands for every elapsed time
Durations == {1}

(* ------------------------------- state --------------------------------- *)
VARIABLES
  config,         \* *config.Config: [Concurrency]
  ctxDone,        \* the context given to Audit has been cancelled
  apc,            \* where Audit's own goroutine is
  listErr,        \* the err ListProjects returned
  retErr,         \* the error Audit returned
  projects,       \* projects, from ListProjects
  validProjects,  \* validProjects
  spawned,        \* how many g.Go calls the loop has made
  report,         \* domain.AuditReport
  semaphore,      \* number of elements in the semaphore channel
  mutex,          \* 0: unlocked, i: locked by task i
  processed,      \* processed
  tpc,            \* where each per-project goroutine is
  tServices,      \* each goroutine's local `services`
  tErr,           \* each goroutine's local `err`
  tDuration,      \* each goroutine's local `processingDuration`
  gErr,           \* errgroup: the first non-nil error a task returned
  lsCalls,        \* history: project IDs ListServices was called with
  statsRuns,      \* history: how often calculateStatistics ran
  cancelAt        \* history: whether tasks were pending, whether every
                  \* task not yet holding a permit was blocked on the
                  \* semaphore, and the keys of
                  \* report.Services, when the context was cancelled

auditVars ==
  << config, ctxDone, apc, listErr, retErr, projects, validProjects, spawned,
     report, semaphore, mutex, processed, tpc, tServices, tErr, tDuration, gErr,
     lsCalls, statsRuns, cancelAt >>

\* the state of one call of ServiceRepository.ListServices
VARIABLES
  lpc,            \* where the goroutine that called ListServices is
  lsCtxDone,      \* the context given to ListServices has been cancelled
  gctxDone,       \* the errgroup's context (ctx after line 61) is done
  services,       \* services, from listAllServices
  workChan,       \* elements buffered in workChan
  workClosed,     \* close(workChan) has happened
  resultsChan,    \* elements buffered in resultsChan
  resultsClosed,  \* close(resultsChan) has happened
  wpc,            \* where each worker is
  wService,       \* each worker's local `service`
  lgErr,          \* errgroup: the first non-nil error a worker returned
  dpc,            \* where the dispatch goroutine is
  di,             \* the dispatch loop's i (next position, from 1)
  cpc,            \* where the collect goroutine is
  ci,             \* the collect loop's i (next position, from 1)
  results,        \* the backing array of `results`, shared with the caller
  lsRet,          \* the error ListServices returned
  taken           \* each worker's local work.index (0: none taken yet)

lsVars ==
  << lpc, lsCtxDone, gctxDone, services, workChan, workClosed, resultsChan,
     resultsClosed, wpc, wService, lgErr, dpc, di, cpc, ci, results, lsRet,
     taken >>

\* calculateStatistics applied to a report on its own
VARIABLES
  statsReport,    \* the report handed to calculateStatistics
  statsOut        \* history: the Statistics each run so far has left in it

statsVars == << statsReport, statsOut >>

\* the audit command, runAudit, around the call of Audit
VARIABLES
  reporters,      \* the reporters handed to NewAuditService (s.reporters)
  generated,      \* history: the GenerateReport calls made so far
  cmdpc           \* where runAudit is

cmdVars == << reporters, generated, cmdpc >>

\* the process's standard output and standard error
VARIABLES
  log             \* history: the writes the per-project goroutines made
                  \* through s.logger, each with the holder of the mutex

logVars == << log >>

vars == << auditVars, lsVars, statsVars, cmdVars, logVars >>

Tasks == 1..MaxProjects

ZeroStatistics ==
  [ TotalProjects |-> 0, ValidProjects |-> 0, ExcludedProjects |-> 0,
    SkippedProjects |-> 0, UniqueServices |-> 0, ServicesWithNoUsage |-> 0,
    ServiceDetails |-> <<>> ]

\* func WithConcurrency(n int) Option, applied by NewConfig to the defaults
WithConcurrency(c, n) == IF n > 0 THEN [c EXCEPT !.Concurrency = n] ELSE c

NewConfig(n) == WithConcurrency([Concurrency |-> DefaultConcurrency], n)

\* report := domain.AuditReport{...} with the three maps made empty
NewReport ==
  [ Projects |-> <<>>, Services |-> EmptyMap, SkippedProjects |-> EmptyMap,
    ProjectDurations |-> EmptyMap, Statistics |-> ZeroStatistics,
    GeneratedAt |-> 0 ]

NotCancelled ==
  [cancelled |-> FALSE, pending |-> FALSE, joined |-> {},
    waiting |-> FALSE]

AuditInit ==
  /\ config \in {NewConfig(n) : n \in ConcurrencyOptions}
  /\ ctxDone = FALSE
  /\ apc = "listProjects"
  /\ listErr = Nil
  /\ retErr = Nil
  /\ projects = <<>>
  /\ validProjects = <<>>
  /\ spawned = 0
  /\ report = NewReport
  /\ semaphore = 0
  /\ mutex = 0
  /\ processed = 0
  /\ tpc = [i \in Tasks |-> "idle"]
  /\ tServices = [i \in Tasks |-> <<>>]
  /\ tErr = [i \in Tasks |-> Nil]
  /\ tDuration = [i \in Tasks |-> 0]
  /\ gErr = Nil
  /\ lsCalls = {}
  /\ statsRuns = 0
  /\ cancelAt = NotCancelled
  /\ log = {}


(* ------------------------ calculateStatistics -------------------------- *)
\* byte order of the characters project IDs are written with
Alphabet ==
  << "-", "0", "1", "2", "3", "4", "5", "6", "7", "8", "9", "a", "b", "s", "y" >>

CharRank(c) == CHOOSE i \in 1..Len(Alphabet) : Alphabet[i] = c

\* a < b on Go strings
RECURSIVE StringLess(_, _)
StringLess(a, b) ==
  IF b = <<>> THEN FALSE
  ELSE IF a = <<>> THEN TRUE
  ELSE IF Head(a) # Head(b) THEN CharRank(Head(a)) < CharRank(Head(b))
  ELSE StringLess(Tail(a), Tail(b))

RECURSIVE InsertString(_, _)
InsertString(sorted, x) ==
  IF sorted = <<>> THEN <<x>>
  ELSE IF StringLess(x, Head(sorted)) THEN <<x>> \o sorted
  ELSE <<Head(sorted)>> \o InsertString(Tail(sorted), x)

\* SortStrings that leaves the slice as it is
SortStringsUnsorted(xs) == xs

\* sort.Strings
RECURSIVE SortStrings(_)
SortStrings(xs) ==
  IF xs = <<>> THEN <<>> ELSE InsertString(SortStrings(Tail(xs)), Head(xs))

\* the orders a `range` over a map with these keys can take
Orders(S) ==
  { f \in [1..Cardinality(S) -> S] : \A x \in S : \E i \in DOMAIN f : f[i] = x }

\* AddService with every non-nil Usage counted, whatever its Status
AddServiceAnyStatus(acc, projectID, service) ==
  LET exists == service.Name \in DOMAIN acc.uniqueServices
      detail == IF exists THEN acc.uniqueServices[service.Name]
                ELSE [ Name |-> service.Name, ProjectCount |-> 0,
                       TotalRequests |-> 0, EnabledIn |-> <<>> ]
      counted == service.Usage # NilUsage
      updated == [ detail EXCEPT
                     !.ProjectCount = @ + 1,
                     !.EnabledIn = Append(@, projectID),
                     !.TotalRequests =
                        IF counted THEN @ + service.Usage.RequestCount ELSE @ ]
  IN  [ uniqueServices |-> MapPut(acc.uniqueServices, service.Name, updated),
        servicesWithNoUsage |->
          IF counted /\ service.Usage.RequestCount = 0
          THEN acc.servicesWithNoUsage + 1 ELSE acc.servicesWithNoUsage ]

\* the body of the inner loop, lines 144-161, for one service of one project
AddService(acc, projectID, service) ==
  LET exists == service.Name \in DOMAIN acc.uniqueServices
      detail == IF exists THEN acc.uniqueServices[service.Name]
                ELSE [ Name |-> service.Name, ProjectCount |-> 0,
                       TotalRequests |-> 0, EnabledIn |-> <<>> ]
      success == /\ service.Usage # NilUsage
                 /\ service.Usage.Status = UsageStatusSuccess
      updated == [ detail EXCEPT
                     !.ProjectCount = @ + 1,
                     !.EnabledIn = Append(@, projectID),
                     !.TotalRequests =
                        IF success THEN @ + service.Usage.RequestCount ELSE @ ]
  IN  [ uniqueServices |-> MapPut(acc.uniqueServices, service.Name, updated),
        servicesWithNoUsage |->
          IF success /\ service.Usage.RequestCount = 0
          THEN acc.servicesWithNoUsage + 1 ELSE acc.servicesWithNoUsage ]

\* for _, service := range services
RECURSIVE AddServices(_, _, _)
AddServices(acc, projectID, list) ==
  IF list = <<>> THEN acc
  ELSE AddServices(AddService(acc, projectID, Head(list)), projectID,
                   Tail(list))

\* for projectID, services := range report.Services, in the order `order`
RECURSIVE AddProjects(_, _, _)
AddProjects(acc, Services, order) ==
  IF order = <<>> THEN acc
  ELSE AddProjects(AddServices(acc, Head(order), Services[Head(order)]),
                   Services, Tail(order))

\* DetailLess with the request totals compared before the project counts
DetailLessByRequests(a, b) ==
  IF a.TotalRequests # b.TotalRequests THEN a.TotalRequests > b.TotalRequests
  ELSE a.ProjectCount > b.ProjectCount

\* the comparison handed to sort.Slice, lines 174-180
DetailLess(a, b) ==
  IF a.ProjectCount # b.ProjectCount THEN a.ProjectCount > b.ProjectCount
  ELSE a.TotalRequests > b.TotalRequests

\* sort.Slice is not stable: it may leave the slice in any order in which no
\* element is less than one before it.
SortSliceResults(details) ==
  { p \in Orders(details) :
      \A i, j \in DOMAIN p : i < j => ~DetailLess(p[j], p[i]) }

\* func (s *AuditService) calculateStatistics(report *domain.AuditReport):
\* the Statistics it can leave in the report
calculateStatistics(rep) ==
  { LET acc == AddProjects([uniqueServices |-> EmptyMap,
                            servicesWithNoUsage |-> 0], rep.Services, order)
        names == DOMAIN acc.uniqueServices
        details == { [acc.uniqueServices[n] EXCEPT
                        !.EnabledIn = SortStrings(@)] : n \in names }
    IN  { [ rep.Statistics EXCEPT
              !.UniqueServices = Cardinality(names),
              !.ServicesWithNoUsage = acc.servicesWithNoUsage,
              !.ServiceDetails = sd ] : sd \in SortSliceResults(details) }
    : order \in Orders(DOMAIN rep.Services) }

(* ------------------ calculateStatistics on its own --------------------- *)
\* how many services the reports handed to calculateStatistics hold, at most,
\* over all their projects
MaxPairs == 3

StatsProjectA == <<"a">>
StatsProjectB == <<"b">>

StatsNames == { <<"compute">>, <<"storage">> }

\* what Service.Usage may hold: nil, or a Usage with any status and count
StatsUsages ==
  { NilUsage,
    Usage(0, UsageStatusSuccess), Usage(1, UsageStatusSuccess),
    Usage(1, UsageStatusNoAccess), Usage(1, UsageStatusError),
    Usage(1, UsageStatusUnset) }

StatsEntries == [name : StatsNames, usage : StatsUsages]

\* the slice of a project's services with these names and usages
StatsSlice(id, entries) ==
  [i \in DOMAIN entries |->
     Service(entries[i].name, "ENABLED", id, entries[i].usage)]

\* report.Services is any map from some of the two projects to slices that
\* hold at most MaxPairs services between them
StatsInit ==
  /\ \E keys \in SUBSET {StatsProjectA, StatsProjectB} :
       \E ka \in 0..MaxPairs :
         /\ StatsProjectA \notin keys => ka = 0
         /\ \E kb \in 0..(MaxPairs - ka) :
              /\ StatsProjectB \notin keys => kb = 0
              /\ \E ea \in [1..ka -> StatsEntries] :
                   \E eb \in [1..kb -> StatsEntries] :
                     statsReport =
                       [NewReport EXCEPT !.Services =
                          [id \in keys |->
                             IF id = StatsProjectA
                             THEN StatsSlice(StatsProjectA, ea)
                             ELSE StatsSlice(StatsProjectB, eb)]]
  /\ statsOut = <<>>

\* no report is handed to calculateStatistics on its own
StatsIdle ==
  /\ statsReport = NewReport
  /\ statsOut = <<>>

\* s.calculateStatistics(&report), run on the same report up to twice
CalculateStatistics ==
  /\ Len(statsOut) < 2
  /\ \E stats \in UNION calculateStatistics(statsReport) :
       /\ statsReport' = [statsReport EXCEPT !.Statistics = stats]
       /\ statsOut' = Append(statsOut, stats)
  /\ UNCHANGED << auditVars, lsVars, cmdVars, logVars >>

(* --------------------------- Audit: main ------------------------------- *)
\* ListProjectsFails with the error logged and not returned
ListProjectsFailsSwallowed ==
  /\ apc = "listProjects"
  /\ apc' = "returned"
  /\ listErr' = ErrListProjects
  /\ retErr' = Nil
  /\ UNCHANGED << lsVars, statsVars, cmdVars, logVars >>
  /\ UNCHANGED << config, ctxDone, projects, validProjects, spawned, report,
                  semaphore, mutex, processed, tpc, tServices, tErr,
                  tDuration, gErr, lsCalls, statsRuns, cancelAt >>

\* projects, err := s.projectRepo.ListProjects(ctx); err != nil
ListProjectsFails ==
  /\ apc = "listProjects"
  /\ apc' = "returned"
  /\ listErr' = ErrListProjects
  /\ retErr' = ErrListProjects
  /\ UNCHANGED << lsVars, statsVars, cmdVars, logVars >>
  /\ UNCHANGED << config, ctxDone, projects, validProjects, spawned, report,
                  semaphore, mutex, processed, tpc, tServices, tErr,
                  tDuration, gErr, lsCalls, statsRuns, cancelAt >>

\* FilterValid with the system projects kept as well
FilterValidKeepsAll(ps) == ps

\* the filter loop, lines 63-70: the projects kept, in order
RECURSIVE FilterValid(_)
FilterValid(ps) ==
  IF ps = <<>> THEN <<>>
  ELSE IF IsValidProject(Head(ps)) THEN <<Head(ps)>> \o FilterValid(Tail(ps))
  ELSE FilterValid(Tail(ps))

\* CountExcluded with the increment in the wrong branch of the filter
RECURSIVE CountExcludedInverted(_)
CountExcludedInverted(ps) ==
  IF ps = <<>> THEN 0
  ELSE (IF IsValidProject(Head(ps)) THEN 1 ELSE 0)
         + CountExcludedInverted(Tail(ps))

\* the filter loop, lines 63-70: how often ExcludedProjects++ runs
RECURSIVE CountExcluded(_)
CountExcluded(ps) ==
  IF ps = <<>> THEN 0
  ELSE (IF IsValidProject(Head(ps)) THEN 0 ELSE 1) + CountExcluded(Tail(ps))

\* ListProjects succeeds; lines 57-83
ListProjectsOK ==
  /\ apc = "listProjects"
  /\ \E ps \in ProjectLists :
       /\ projects' = ps
       /\ validProjects' = FilterValid(ps)
       /\ report' = [ report EXCEPT
                        !.Statistics.TotalProjects = Len(ps),
                        !.Statistics.ExcludedProjects = CountExcluded(ps),
                        !.Projects = FilterValid(ps),
                        !.Statistics.ValidProjects = Len(FilterValid(ps)) ]
  /\ apc' = "spawn"
  /\ UNCHANGED << lsVars, statsVars, cmdVars, logVars >>
  /\ UNCHANGED << listErr, config, ctxDone, retErr, spawned, semaphore, mutex,
                  processed, tpc, tServices, tErr, tDuration, gErr, lsCalls,
                  statsRuns, cancelAt >>

\* one iteration of `for _, project := range validProjects { g.Go(...) }`
Go ==
  /\ apc = "spawn"
  /\ spawned < Len(validProjects)
  /\ spawned' = spawned + 1
  /\ tpc' = [tpc EXCEPT ![spawned + 1] = "acquire"]
  /\ UNCHANGED << lsVars, statsVars, cmdVars, logVars >>
  /\ UNCHANGED << listErr, config, ctxDone, apc, retErr, projects, validProjects,
                  report, semaphore, mutex, processed, tServices, tErr,
                  tDuration, gErr, lsCalls, statsRuns, cancelAt >>

AllTasksDone == \A i \in 1..Len(validProjects) : tpc[i] = "done"

\* Wait that returns as soon as the loop has spawned every goroutine
WaitWithoutJoin ==
  /\ apc = "spawn"
  /\ spawned = Len(validProjects)
  /\ IF gErr # Nil
     THEN apc' = "returned" /\ retErr' = gErr
     ELSE apc' = "statistics" /\ UNCHANGED retErr
  /\ UNCHANGED << lsVars, statsVars, cmdVars, logVars >>
  /\ UNCHANGED << listErr, config, ctxDone, projects, validProjects, spawned, report,
                  semaphore, mutex, processed, tpc, tServices, tErr,
                  tDuration, gErr, lsCalls, statsRuns, cancelAt >>

\* g.Wait() returns once every goroutine has returned; lines 119-121
Wait ==
  /\ apc = "spawn"
  /\ spawned = Len(validProjects)
  /\ AllTasksDone
  /\ IF gErr # Nil
     THEN apc' = "returned" /\ retErr' = gErr
     ELSE apc' = "statistics" /\ UNCHANGED retErr
  /\ UNCHANGED << lsVars, statsVars, cmdVars, logVars >>
  /\ UNCHANGED << listErr, config, ctxDone, projects, validProjects, spawned, report,
                  semaphore, mutex, processed, tpc, tServices, tErr,
                  tDuration, gErr, lsCalls, statsRuns, cancelAt >>

\* lines 123-133: GeneratedAt, calculateStatistics, return report, nil
Finish ==
  /\ apc = "statistics"
  /\ \E stats \in UNION calculateStatistics(report) :
       report' = [report EXCEPT !.GeneratedAt = 1, !.Statistics = stats]
  /\ statsRuns' = statsRuns + 1
  /\ apc' = "returned"
  /\ retErr' = Nil
  /\ UNCHANGED << lsVars, statsVars, cmdVars, logVars >>
  /\ UNCHANGED << listErr, config, ctxDone, projects, validProjects, spawned,
                  semaphore, mutex, processed, tpc, tServices, tErr,
                  tDuration, gErr, lsCalls, cancelAt >>

(* ---------------------- Audit: per-project task ------------------------ *)
ProjectOf(i) == validProjects[i]

\* Acquire on a semaphore that never fills
AcquireUnbounded(i) ==
  /\ tpc[i] = "acquire"
  /\ semaphore' = semaphore + 1
  /\ tpc' = [tpc EXCEPT ![i] = "listServices"]
  /\ lsCalls' = lsCalls \cup {ProjectOf(i).ID}
  /\ UNCHANGED << lsVars, statsVars, cmdVars, logVars >>
  /\ UNCHANGED << config, ctxDone, apc, listErr, retErr, projects,
                  validProjects, spawned, report, mutex, processed,
                  tServices, tErr, tDuration, gErr, statsRuns, cancelAt >>

\* semaphore <- struct{}{} on a channel of capacity config.Concurrency, then
\* lines 92-95 up to the call of s.serviceRepo.ListServices
Acquire(i) ==
  /\ tpc[i] = "acquire"
  /\ semaphore < config.Concurrency
  /\ semaphore' = semaphore + 1
  /\ tpc' = [tpc EXCEPT ![i] = "listServices"]
  /\ lsCalls' = lsCalls \cup {ProjectOf(i).ID}
  /\ UNCHANGED << lsVars, statsVars, cmdVars, logVars >>
  /\ UNCHANGED << listErr, config, ctxDone, apc, retErr, projects, validProjects,
                  spawned, report, mutex, processed, tServices, tErr,
                  tDuration, gErr, statsRuns, cancelAt >>

\* services, err := s.serviceRepo.ListServices(...) returns; line 96
ListServicesReturns(i) ==
  /\ tpc[i] = "listServices"
  /\ \E answer \in ListServicesAnswers(ProjectOf(i).ID, ctxDone) :
       /\ tServices' = [tServices EXCEPT ![i] = answer.services]
       /\ tErr' = [tErr EXCEPT ![i] = answer.err]
  /\ \E d \in Durations : tDuration' = [tDuration EXCEPT ![i] = d]
  /\ tpc' = [tpc EXCEPT ![i] = "lock"]
  /\ UNCHANGED << lsVars, statsVars, cmdVars, logVars >>
  /\ UNCHANGED << listErr, config, ctxDone, apc, retErr, projects, validProjects,
                  spawned, report, semaphore, mutex, processed, gErr,
                  lsCalls, statsRuns, cancelAt >>

\* With its context cancelled a call of ListServices may never return (its
\* workers stay blocked on the work queue, see DispatchCancelled).
ListServicesBlocks(i) ==
  /\ tpc[i] = "listServices"
  /\ ctxDone
  /\ tpc' = [tpc EXCEPT ![i] = "blocked"]
  /\ UNCHANGED << lsVars, statsVars, cmdVars, logVars >>
  /\ UNCHANGED << listErr, config, ctxDone, apc, retErr, projects, validProjects,
                  spawned, report, semaphore, mutex, processed, tServices,
                  tErr, tDuration, gErr, lsCalls, statsRuns, cancelAt >>

\* Lock that takes the mutex whether or not another task holds it
LockUnguarded(i) ==
  /\ tpc[i] = "lock"
  /\ mutex' = i
  /\ tpc' = [tpc EXCEPT ![i] = "critical"]
  /\ UNCHANGED << lsVars, statsVars, cmdVars, logVars >>
  /\ UNCHANGED << listErr, config, ctxDone, apc, retErr, projects, validProjects,
                  spawned, report, semaphore, processed, tServices, tErr,
                  tDuration, gErr, lsCalls, statsRuns, cancelAt >>

\* mutex.Lock()
Lock(i) ==
  /\ tpc[i] = "lock"
  /\ mutex = 0
  /\ mutex' = i
  /\ tpc' = [tpc EXCEPT ![i] = "critical"]
  /\ UNCHANGED << lsVars, statsVars, cmdVars, logVars >>
  /\ UNCHANGED << listErr, config, ctxDone, apc, retErr, projects, validProjects,
                  spawned, report, semaphore, processed, tServices, tErr,
                  tDuration, gErr, lsCalls, statsRuns, cancelAt >>

\* RecordOutcome with the duration stored only when ListServices succeeded
RecordOutcomeUntimedOnFailure(rep, id, list, err, duration) ==
  IF err # Nil
  THEN [rep EXCEPT !.SkippedProjects = MapPut(@, id, err),
                   !.Statistics.SkippedProjects = @ + 1]
  ELSE [rep EXCEPT !.ProjectDurations = MapPut(@, id, duration),
                   !.Services = MapPut(@, id, list)]

\* RecordOutcome storing the list before it looks at err
RecordOutcomeStoredFirst(rep, id, list, err, duration) ==
  LET timed == [rep EXCEPT
                  !.ProjectDurations = MapPut(@, id, duration),
                  !.Services = MapPut(@, id, list)]
  IN  IF err # Nil
      THEN [timed EXCEPT !.SkippedProjects = MapPut(@, id, err),
                         !.Statistics.SkippedProjects = @ + 1]
      ELSE timed

\* RecordOutcome without the skipped counter
RecordOutcomeUncounted(rep, id, list, err, duration) ==
  LET timed == [rep EXCEPT
                  !.ProjectDurations = MapPut(@, id, duration)]
  IN  IF err # Nil
      THEN [timed EXCEPT !.SkippedProjects = MapPut(@, id, err)]
      ELSE [timed EXCEPT !.Services = MapPut(@, id, list)]

\* lines 99-113: what the critical section writes to the report
RecordOutcome(rep, id, list, err, duration) ==
  LET timed == [rep EXCEPT
                  !.ProjectDurations = MapPut(@, id, duration)]
  IN  IF err # Nil
      THEN [timed EXCEPT !.SkippedProjects = MapPut(@, id, err),
                         !.Statistics.SkippedProjects = @ + 1]
      ELSE [timed EXCEPT !.Services = MapPut(@, id, list)]

\* the one write to the log a goroutine makes in lines 99-113:
\* s.logger.Error (fmt.Fprintf(os.Stderr, ...)) when ListServices failed,
\* s.logger.Info (fmt.Printf) otherwise; `holder` is who holds the mutex then
LogWrite(i, err) ==
  [ task |-> i,
    stream |-> IF err # Nil THEN "stderr" ELSE "stdout",
    holder |-> mutex ]

\* lines 99-114: the critical section and mutex.Unlock()
Record(i) ==
  /\ tpc[i] = "critical"
  /\ mutex = i
  /\ processed' = processed + 1
  /\ report' = RecordOutcome(report, ProjectOf(i).ID, tServices[i], tErr[i],
                             tDuration[i])
  /\ log' = log \cup {LogWrite(i, tErr[i])}
  /\ mutex' = 0
  /\ tpc' = [tpc EXCEPT ![i] = "release"]
  /\ UNCHANGED << lsVars, statsVars, cmdVars >>
  /\ UNCHANGED << listErr, config, ctxDone, apc, retErr, projects, validProjects,
                  spawned, semaphore, tServices, tErr, tDuration, gErr,
                  lsCalls, statsRuns, cancelAt >>

\* line 115: what the goroutine returns to the errgroup
TaskResult(i) == Nil

\* ReleasePermit without the deferred receive
ReleasePermitLeaked(n) == n

\* the permits left after the deferred <-semaphore
ReleasePermit(n) == n - 1

\* return nil, the deferred func() { <-semaphore }(), and the errgroup
\* keeping the first non-nil error
Release(i) ==
  /\ tpc[i] = "release"
  /\ semaphore' = ReleasePermit(semaphore)
  /\ gErr' = IF gErr = Nil THEN TaskResult(i) ELSE gErr
  /\ tpc' = [tpc EXCEPT ![i] = "done"]
  /\ UNCHANGED << lsVars, statsVars, cmdVars, logVars >>
  /\ UNCHANGED << listErr, config, ctxDone, apc, retErr, projects, validProjects,
                  spawned, report, mutex, processed, tServices, tErr,
                  tDuration, lsCalls, statsRuns, cancelAt >>

Task(i) ==
  \/ Acquire(i)
  \/ ListServicesReturns(i)
  \/ ListServicesBlocks(i)
  \/ Lock(i)
  \/ Record(i)
  \/ Release(i)

\* tasks scheduled by the loop (or still to be scheduled) and not finished
\* the goroutines blocked in `semaphore <- struct{}{}`: the channel is full
WaitingForPermit ==
  { i \in 1..spawned :
      tpc[i] = "acquire" /\ semaphore = config.Concurrency }

PendingTasks ==
  IF apc = "spawn" THEN {i \in 1..Len(validProjects) : tpc[i] # "done"}
  ELSE {}

\* the caller cancels the context given to Audit (or its deadline passes)
Cancel ==
  /\ apc # "returned"
  /\ ~ctxDone
  /\ ctxDone' = TRUE
  /\ cancelAt' = [ cancelled |-> TRUE,
                   pending |-> PendingTasks # {},
                   joined |-> DOMAIN report.Services,
                   waiting |-> /\ spawned = Len(validProjects)
                               /\ WaitingForPermit # {} ]
  /\ UNCHANGED << lsVars, statsVars, cmdVars, logVars >>
  /\ UNCHANGED << listErr, config, apc, retErr, projects, validProjects, spawned,
                  report, semaphore, mutex, processed, tpc, tServices, tErr,
                  tDuration, gErr, lsCalls, statsRuns >>

(* ------------------------ the audit command ---------------------------- *)
\* config.NewConfig: Format "all" unless --format is given
DefaultFormat == "all"

\* runAudit, lines 102-113: the reporters built for a format, by name
NewReporters(format) ==
  CASE format = "markdown" -> << "markdown" >>
    [] format = "json" -> << "json" >>
    [] format = "all" -> << "markdown", "json" >>
    [] OTHER -> << >>

\* runAudit up to its call of auditService.Audit(ctx), run without --format
CmdInit ==
  /\ reporters = NewReporters(DefaultFormat)
  /\ generated = <<>>
  /\ cmdpc = "audit"

\* runAudit after Audit has returned, lines 122-131: on an error log it and
\* return it, otherwise printAuditSummary(auditReport) and return nil.
\* Neither branch, nor Audit, calls GenerateReport on s.reporters.
RunAuditReturns ==
  /\ apc = "returned"
  /\ cmdpc = "audit"
  /\ cmdpc' = "exited"
  /\ UNCHANGED << reporters, generated >>
  /\ UNCHANGED << auditVars, lsVars, statsVars, logVars >>

(* ======================= ListServices (worker pool) ==================== *)
\* largest number of services a listing returns
MaxServices == 3
\* Size of the worker pool.  NewServiceRepository sets workerCount: 10; the
\* pool is run here with fewer workers so that listings longer than the pool
\* are covered.
workerCount == 2
\* request counts the monitoring API reports
RequestCounts == {0, 1}

\* a pool with one worker more than workerCount
WorkersOneMore == 1..(workerCount + 1)

\* for i := 0; i < r.workerCount; i++ { g.Go(...) }
Workers == 1..workerCount

\* cleanServiceName: cut everything up to and including the first "services/"
cleanServiceName(name) ==
  IF \E i \in DOMAIN name : name[i] = "services/"
  THEN LET idx == CHOOSE i \in DOMAIN name :
                    /\ name[i] = "services/"
                    /\ \A j \in 1..(i - 1) : name[j] # "services/"
       IN  SubSeq(name, idx + 1, Len(name))
  ELSE name

\* serviceusage.GoogleApiServiceusageV1Service
RawService(name) == [Name |-> name, State |-> "ENABLED"]

\* enabled services the Service Usage API may list for the project
ListedServices ==
  << RawService(<<"projects/1/", "services/", "compute.googleapis.com">>),
     RawService(<<"bigquery.googleapis.com">>),
     RawService(<<"projects/1/", "services/", "storage.googleapis.com">>),
     RawService(<<"services/", "pubsub.googleapis.com">>) >>

Listings == { SubSeq(ListedServices, 1, n) : n \in 0..MaxServices }

\* the project the modelled call is for
LSProjectID == <<"a">>

\* GetServiceUsage: the (usage, err) pairs it can return.  Every return
\* statement of it returns a nil error: a monitoring failure becomes a status.
GetServiceUsage ==
  { [usage |-> Usage(n, UsageStatusSuccess), err |-> Nil] :
      n \in RequestCounts }
  \cup { [usage |-> Usage(0, UsageStatusNoAccess), err |-> Nil] }
  \cup { [usage |-> Usage(n, UsageStatusError), err |-> Nil] :
      n \in RequestCounts \ {0} }

LSInit ==
  /\ lpc = "list"
  /\ lsCtxDone = FALSE
  /\ gctxDone = FALSE
  /\ services = <<>>
  /\ workChan = <<>>
  /\ workClosed = FALSE
  /\ resultsChan = <<>>
  /\ resultsClosed = FALSE
  /\ wpc = [w \in Workers |-> "idle"]
  /\ wService = [w \in Workers |-> ZeroService]
  /\ lgErr = Nil
  /\ dpc = "idle"
  /\ di = 1
  /\ cpc = "idle"
  /\ ci = 1
  /\ results = <<>>
  /\ lsRet = Nil
  /\ taken = [w \in Workers |-> 0]

\* listAllServices fails: return nil, err (lines 49-52)
ListAllServicesFails ==
  /\ lpc = "list"
  /\ lpc' = "returned"
  /\ lsRet' = ErrListServices(LSProjectID)
  /\ UNCHANGED << auditVars, statsVars, cmdVars, logVars >>
  /\ UNCHANGED << lsCtxDone, gctxDone, services, workChan, workClosed,
                  resultsChan, resultsClosed, wpc, wService, lgErr, dpc, di,
                  cpc, ci, results, taken >>

\* lines 54-125: the listing succeeds, the channels are made, the workers, the
\* dispatcher and the collector are started and the caller enters g.Wait()
StartPool ==
  /\ lpc = "list"
  /\ \E l \in Listings :
       /\ services' = l
       /\ results' = [i \in 1..Len(l) |-> ZeroService]
  /\ wpc' = [w \in Workers |-> "recv"]
  /\ dpc' = "loop"
  /\ cpc' = "loop"
  /\ gctxDone' = lsCtxDone
  /\ lpc' = "wait"
  /\ UNCHANGED << auditVars, statsVars, cmdVars, logVars >>
  /\ UNCHANGED << lsCtxDone, workChan, workClosed, resultsChan,
                  resultsClosed, wService, lgErr, di, ci, lsRet, taken >>

\* lines 66-76: a worker receives from workChan and builds the service
WorkerReceive(w) ==
  /\ wpc[w] = "recv"
  /\ workChan # <<>>
  /\ LET work == Head(workChan)
     IN  /\ wService' = [wService EXCEPT ![w] =
              Service(cleanServiceName(work.service.Name), work.service.State,
                      LSProjectID, NilUsage)]
         /\ taken' = [taken EXCEPT ![w] = work.index]
  /\ workChan' = Tail(workChan)
  /\ wpc' = [wpc EXCEPT ![w] = "usage"]
  /\ UNCHANGED << auditVars, statsVars, cmdVars, logVars >>
  /\ UNCHANGED << lpc, lsCtxDone, gctxDone, services, workClosed,
                  resultsChan, resultsClosed, lgErr, dpc, di, cpc, ci,
                  results, lsRet >>

\* line 66 and 96: the range ends when workChan is closed and drained
WorkerExit(w) ==
  /\ wpc[w] = "recv"
  /\ workChan = <<>>
  /\ workClosed
  /\ wpc' = [wpc EXCEPT ![w] = "done"]
  /\ UNCHANGED << auditVars, statsVars, cmdVars, logVars >>
  /\ UNCHANGED << lpc, lsCtxDone, gctxDone, services, workChan, workClosed,
                  resultsChan, resultsClosed, wService, lgErr, dpc, di, cpc,
                  ci, results, lsRet, taken >>

\* lines 83-88: the Usage the worker stores for what GetServiceUsage returned
UsageFor(answer) ==
  IF answer.err # Nil THEN Usage(0, UsageStatusUnset) ELSE answer.usage

\* lines 79-88: GetServiceUsage returns
WorkerUsage(w) ==
  /\ wpc[w] = "usage"
  /\ \E answer \in GetServiceUsage :
       wService' = [wService EXCEPT ![w].Usage = UsageFor(answer)]
  /\ wpc' = [wpc EXCEPT ![w] = "send"]
  /\ UNCHANGED << auditVars, statsVars, cmdVars, logVars >>
  /\ UNCHANGED << lpc, lsCtxDone, gctxDone, services, workChan, workClosed,
                  resultsChan, resultsClosed, lgErr, dpc, di, cpc, ci,
                  results, lsRet, taken >>

\* line 91: case resultsChan <- service
WorkerSend(w) ==
  /\ wpc[w] = "send"
  /\ Len(resultsChan) < Len(services)
  /\ resultsChan' = Append(resultsChan, wService[w])
  /\ wpc' = [wpc EXCEPT ![w] = "recv"]
  /\ UNCHANGED << auditVars, statsVars, cmdVars, logVars >>
  /\ UNCHANGED << lpc, lsCtxDone, gctxDone, services, workChan, workClosed,
                  resultsClosed, wService, lgErr, dpc, di, cpc, ci, results,
                  lsRet, taken >>

\* lines 92-93: case <-ctx.Done(): return ctx.Err(); the errgroup keeps the
\* first error and cancels its context
WorkerCancelled(w) ==
  /\ wpc[w] = "send"
  /\ gctxDone
  /\ wpc' = [wpc EXCEPT ![w] = "done"]
  /\ lgErr' = IF lgErr = Nil THEN Error(ContextCanceled, <<>>, "") ELSE lgErr
  /\ UNCHANGED << auditVars, statsVars, cmdVars, logVars >>
  /\ UNCHANGED << lpc, lsCtxDone, gctxDone, services, workChan, workClosed,
                  resultsChan, resultsClosed, wService, dpc, di, cpc, ci,
                  results, lsRet, taken >>

\* line 104: case workChan <- serviceWork{service: service, index: i}
DispatchSend ==
  /\ dpc = "loop"
  /\ di <= Len(services)
  /\ Len(workChan) < Len(services)
  /\ workChan' = Append(workChan, [service |-> services[di], index |-> di])
  /\ di' = di + 1
  /\ UNCHANGED << auditVars, statsVars, cmdVars, logVars >>
  /\ UNCHANGED << lpc, lsCtxDone, gctxDone, services, workClosed,
                  resultsChan, resultsClosed, wpc, wService, lgErr, dpc, cpc,
                  ci, results, lsRet, taken >>

\* whether the dispatcher closes workChan when it stops on ctx.Done()
DispatchClosesOnCancel == FALSE

\* lines 105-106: case <-ctx.Done(): return
DispatchCancelled ==
  /\ dpc = "loop"
  /\ di <= Len(services)
  /\ gctxDone
  /\ dpc' = "done"
  /\ workClosed' = (workClosed \/ DispatchClosesOnCancel)
  /\ UNCHANGED << auditVars, statsVars, cmdVars, logVars >>
  /\ UNCHANGED << lpc, lsCtxDone, gctxDone, services, workChan, resultsChan,
                  resultsClosed, wpc, wService, lgErr, di, cpc, ci, results,
                  lsRet, taken >>

\* line 109: close(workChan) after the loop
DispatchClose ==
  /\ dpc = "loop"
  /\ di > Len(services)
  /\ workClosed' = TRUE
  /\ dpc' = "done"
  /\ UNCHANGED << auditVars, statsVars, cmdVars, logVars >>
  /\ UNCHANGED << lpc, lsCtxDone, gctxDone, services, workChan, resultsChan,
                  resultsClosed, wpc, wService, lgErr, di, cpc, ci, results,
                  lsRet, taken >>

\* the position of `results` the collector stores its i-th received result at
CollectSlot(i, result) == i

\* lines 117-118: case result := <-resultsChan: results[i] = result
CollectReceive ==
  /\ cpc = "loop"
  /\ ci <= Len(services)
  /\ resultsChan # <<>>
  /\ results' = [results EXCEPT ![CollectSlot(ci, Head(resultsChan))] =
                   Head(resultsChan)]
  /\ resultsChan' = Tail(resultsChan)
  /\ ci' = ci + 1
  /\ UNCHANGED << auditVars, statsVars, cmdVars, logVars >>
  /\ UNCHANGED << lpc, lsCtxDone, gctxDone, services, workChan, workClosed,
                  resultsClosed, wpc, wService, lgErr, dpc, di, cpc, lsRet,
                  taken >>

\* lines 119-120: case <-ctx.Done(): return
CollectCancelled ==
  /\ cpc = "loop"
  /\ ci <= Len(services)
  /\ gctxDone
  /\ cpc' = "done"
  /\ UNCHANGED << auditVars, statsVars, cmdVars, logVars >>
  /\ UNCHANGED << lpc, lsCtxDone, gctxDone, services, workChan, workClosed,
                  resultsChan, resultsClosed, wpc, wService, lgErr, dpc, di,
                  ci, results, lsRet, taken >>

\* line 123: close(resultsChan) after the loop
CollectClose ==
  /\ cpc = "loop"
  /\ ci > Len(services)
  /\ resultsClosed' = TRUE
  /\ cpc' = "done"
  /\ UNCHANGED << auditVars, statsVars, cmdVars, logVars >>
  /\ UNCHANGED << lpc, lsCtxDone, gctxDone, services, workChan, workClosed,
                  resultsChan, wpc, wService, lgErr, dpc, di, ci, results,
                  lsRet, taken >>

\* g.Wait() waits for the workers only
WaitJoined == \A w \in Workers : wpc[w] = "done"

\* lines 127-131: g.Wait() returns (and cancels the group's context), then
\* return nil, fmt.Errorf(...) or return results, nil
WaitReturns ==
  /\ lpc = "wait"
  /\ WaitJoined
  /\ gctxDone' = TRUE
  /\ lsRet' = IF lgErr # Nil THEN ErrProcessing(lgErr.msg) ELSE Nil
  /\ lpc' = "returned"
  /\ UNCHANGED << auditVars, statsVars, cmdVars, logVars >>
  /\ UNCHANGED << lsCtxDone, services, workChan, workClosed, resultsChan,
                  resultsClosed, wpc, wService, lgErr, dpc, di, cpc, ci,
                  results, taken >>

\* the caller's context is cancelled while the call is in progress
LSCancel ==
  /\ lpc # "returned"
  /\ ~lsCtxDone
  /\ lsCtxDone' = TRUE
  /\ gctxDone' = (lpc = "wait")
  /\ UNCHANGED << auditVars, statsVars, cmdVars, logVars >>
  /\ UNCHANGED << lpc, services, workChan, workClosed, resultsChan,
                  resultsClosed, wpc, wService, lgErr, dpc, di, cpc, ci,
                  results, lsRet, taken >>

Worker(w) ==
  \/ WorkerReceive(w)
  \/ WorkerExit(w)
  \/ WorkerUsage(w)
  \/ WorkerSend(w)
  \/ WorkerCancelled(w)

Dispatcher == DispatchSend \/ DispatchCancelled \/ DispatchClose

Collector == CollectReceive \/ CollectCancelled \/ CollectClose

(* ========================== specifications ============================= *)
\* the audit run starts; no call of ListServices is modelled in detail
Init == AuditInit /\ LSInit /\ StatsIdle /\ CmdInit

\* a call of ListServices starts, made under the default configuration
InitLS == AuditInit /\ config = NewConfig(0) /\ LSInit /\ StatsIdle /\ CmdInit

\* a report is handed to calculateStatistics
InitStats ==
  AuditInit /\ config = NewConfig(0) /\ LSInit /\ StatsInit /\ CmdInit

Main ==
  ListProjectsFails \/ ListProjectsOK \/ Go \/ Wait \/ Finish
    \/ RunAuditReturns

Next ==
  \/ ListProjectsFails
  \/ ListProjectsOK
  \/ Go
  \/ Wait
  \/ Finish
  \/ RunAuditReturns
  \/ \E i \in Tasks : Acquire(i)
  \/ \E i \in Tasks : ListServicesReturns(i)
  \/ \E i \in Tasks : ListServicesBlocks(i)
  \/ \E i \in Tasks : Lock(i)
  \/ \E i \in Tasks : Record(i)
  \/ \E i \in Tasks : Release(i)
  \/ Cancel

\* the audit run
Spec == Init /\ [][Next]_vars

\* The audit run under a fair scheduler: the Go runtime lets every goroutine
\* that can take a step take one.  Nothing obliges the caller to cancel.
LiveSpec ==
  /\ Init
  /\ [][Next]_vars
  /\ WF_vars(Main)
  /\ \A i \in Tasks : WF_vars(Task(i))

NextLS ==
  \/ ListAllServicesFails
  \/ StartPool
  \/ \E w \in Workers : WorkerReceive(w)
  \/ \E w \in Workers : WorkerExit(w)
  \/ \E w \in Workers : WorkerUsage(w)
  \/ \E w \in Workers : WorkerSend(w)
  \/ \E w \in Workers : WorkerCancelled(w)
  \/ DispatchSend
  \/ DispatchCancelled
  \/ DispatchClose
  \/ CollectReceive
  \/ CollectCancelled
  \/ CollectClose
  \/ WaitReturns
  \/ LSCancel

\* one call of ListServices
SpecLS == InitLS /\ [][NextLS]_vars

\* one call of ListServices under a fair scheduler
LiveSpecLS ==
  /\ InitLS
  /\ [][NextLS]_vars
  /\ WF_vars(ListAllServicesFails \/ StartPool \/ WaitReturns)
  /\ WF_vars(Dispatcher)
  /\ WF_vars(Collector)
  /\ \A w \in Workers : WF_vars(Worker(w))

NextStats == CalculateStatistics

\* calculateStatistics applied to a report, and applied to it again
SpecStats == InitStats /\ [][NextStats]_vars

(* ============================== claims ================================= *)
UniqueIDs(ps) ==
  \A i, j \in DOMAIN ps : i # j => ps[i].ID # ps[j].ID

ValidIDs == { projects[k].ID : k \in {k \in DOMAIN projects :
                                        IsValidProject(projects[k])} }

\* the tasks whose call of ListServices returned an error
FailedTasks == { i \in 1..Len(validProjects) : tErr[i] # Nil }

\* C1: when Audit returns a nil error and the project IDs are unique, every
\* valid project's ID is a key of exactly one of report.Services and
\* report.SkippedProjects.
C1_ExactlyOneMap ==
  (apc = "returned" /\ retErr = Nil /\ UniqueIDs(projects)) =>
    \A id \in ValidIDs :
      (id \in DOMAIN report.Services) # (id \in DOMAIN report.SkippedProjects)

\* C1: a run of two valid projects returned, one stored and one skipped
C1_Witness ==
  /\ apc = "returned"
  /\ retErr = Nil
  /\ UniqueIDs(projects)
  /\ Cardinality(ValidIDs) = 2
  /\ Cardinality(DOMAIN report.Services) = 1
  /\ Cardinality(DOMAIN report.SkippedProjects) = 1

\* C2: in the report Audit returns, ExcludedProjects + ValidProjects equals
\* TotalProjects and SkippedProjects is at most ValidProjects.
C2_CountsAddUp ==
  apc = "returned" =>
    /\ report.Statistics.ExcludedProjects + report.Statistics.ValidProjects
         = report.Statistics.TotalProjects
    /\ report.Statistics.SkippedProjects <= report.Statistics.ValidProjects

\* C2: a returned run with an excluded, a valid and a skipped project
C2_Witness ==
  /\ apc = "returned"
  /\ report.Statistics.ExcludedProjects = 1
  /\ report.Statistics.ValidProjects = 1
  /\ report.Statistics.SkippedProjects = 1

\* C3: after ListProjects succeeded, Audit returns a nil error although
\* ListServices failed for the tasks F; SkippedProjects counts |F|, each
\* project of F is a key of report.SkippedProjects with the error its call
\* returned, and every other valid project is a key of report.Services with
\* the slice its call returned (keys are told apart when the IDs are unique).
C3_PartialFailure ==
  (apc = "returned" /\ listErr = Nil) =>
    /\ retErr = Nil
    /\ report.Statistics.SkippedProjects = Cardinality(FailedTasks)
    /\ UniqueIDs(validProjects) =>
         \A i \in 1..Len(validProjects) :
           LET id == validProjects[i].ID
           IN  IF i \in FailedTasks
               THEN /\ id \in DOMAIN report.SkippedProjects
                    /\ report.SkippedProjects[id] = tErr[i]
               ELSE /\ id \in DOMAIN report.Services
                    /\ report.Services[id] = tServices[i]

\* C3: a returned run where ListServices failed for one of two projects and
\* answered a non-empty list for the other
C3_Witness ==
  /\ apc = "returned"
  /\ listErr = Nil
  /\ Len(validProjects) = 2
  /\ UniqueIDs(validProjects)
  /\ Cardinality(FailedTasks) = 1
  /\ \E i \in 1..2 : i \notin FailedTasks /\ tServices[i] # <<>>

\* C4: when ListProjects returns an error, Audit returns that error with an
\* empty report (no map entry, every statistic zero), and no task was
\* started, no permit taken and ListServices never called.
C4_ListProjectsFatal ==
  listErr # Nil =>
    /\ apc = "returned"
    /\ retErr = listErr
    /\ report.Services = EmptyMap
    /\ report.SkippedProjects = EmptyMap
    /\ report.ProjectDurations = EmptyMap
    /\ report.Statistics = ZeroStatistics
    /\ \A i \in Tasks : tpc[i] = "idle"
    /\ spawned = 0
    /\ semaphore = 0
    /\ lsCalls = {}
    /\ statsRuns = 0

\* C4: ListProjects failed and Audit has returned
C4_Witness == apc = "returned" /\ listErr = ErrListProjects

\* C5: unless the context is cancelled, Audit eventually returns; when
\* ListProjects succeeded it returns a nil error with the statistics computed.
C5_Terminates ==
  <>( \/ ctxDone
      \/ /\ apc = "returned"
         /\ listErr = Nil => (retErr = Nil /\ statsRuns = 1) )

\* C5: an uncancelled run of two valid projects returned although ListServices
\* failed for both
C5_Witness ==
  /\ apc = "returned"
  /\ ~ctxDone
  /\ listErr = Nil
  /\ retErr = Nil
  /\ statsRuns = 1
  /\ Len(validProjects) = 2
  /\ Cardinality(FailedTasks) = 2

\* C6: when the context is cancelled while tasks are pending or in flight,
\* Audit returns a non-nil error and report.Services holds only projects that
\* were stored before the cancellation.
C6_CancelReturnsError ==
  (apc = "returned" /\ cancelAt.cancelled /\ cancelAt.pending) =>
    /\ retErr # Nil
    /\ DOMAIN report.Services \subseteq cancelAt.joined

\* C10: the tasks that hold a permit are as many as the elements of the
\* semaphore channel, and never more than config.Concurrency.
PermitHolders ==
  { i \in Tasks :
      tpc[i] \in {"listServices", "blocked", "lock", "critical", "release"} }

\* C10: at most config.Concurrency tasks hold a permit (and so at most that
\* many calls of ListServices are in progress).
C10_PermitsBounded ==
  /\ Cardinality(PermitHolders) <= config.Concurrency
  /\ Cardinality({i \in Tasks : tpc[i] \in {"listServices", "blocked"}})
       <= config.Concurrency
  /\ semaphore = Cardinality(PermitHolders)

\* C10: the limit binds: every permit is taken and a task waits for one
C10_Witness ==
  /\ Cardinality(PermitHolders) = config.Concurrency
  /\ \E i \in Tasks : tpc[i] = "acquire"

(* ----------------------- claims on ListServices ------------------------ *)
\* every position of the returned slice holds a result a worker sent
AllFilled == \A i \in DOMAIN results : results[i] # ZeroService

\* the call returned a nil error, the caller never cancelled, and the
\* collector has stopped: nothing will write to the returned slice any more
ReturnedNilAndQuiet ==
  /\ lpc = "returned"
  /\ lsRet = Nil
  /\ ~lsCtxDone
  /\ cpc = "done"

\* C7: when ListServices returns a nil error, position i of the returned
\* slice holds the enriched service of position i of the listing (its
\* cleaned name), whatever the order in which the workers finished.
C7_OrderPreserved ==
  (ReturnedNilAndQuiet /\ AllFilled) =>
    \A i \in DOMAIN results :
      results[i].Name = cleanServiceName(services[i].Name)

\* C8: when ListServices returns a nil error for N listed services, the
\* returned slice has N elements, each listed service is in exactly one of
\* them with a non-nil Usage, and no position is a zero-value Service.
C8_AllPopulated ==
  ReturnedNilAndQuiet =>
    /\ Len(results) = Len(services)
    /\ AllFilled
    /\ \A i \in DOMAIN results : results[i].Usage # NilUsage
    /\ \A k \in DOMAIN services :
         Cardinality({ i \in DOMAIN results :
           results[i].Name = cleanServiceName(services[k].Name) }) = 1

\* a goroutine of the call can take a step
LSCanStep ==
  \/ ENABLED WaitReturns
  \/ ENABLED Dispatcher
  \/ ENABLED Collector
  \/ \E w \in Workers : ENABLED Worker(w)

\* C9: a call whose context was cancelled after the listing succeeded does
\* not block forever: until it has returned some goroutine of it can move on
\* (and when it returns, it returns the cancellation error).
C9_CancelledCallReturns ==
  (lsCtxDone /\ lpc = "wait") => LSCanStep

\* Without a cancellation by the caller the call returns, with a nil error
\* unless the listing failed (used by C5: every call of ListServices that
\* Audit makes under a context that is never cancelled returns).
LSReturnsUnlessCancelled ==
  <>(lsCtxDone \/ (lpc = "returned" /\ lsRet \in {Nil, ErrListServices(LSProjectID)}))

\* What Audit can see of a call: an error when the listing failed, the
\* processing error only under a cancelled context, else a nil error.
LSAnswersAsModelled ==
  lpc = "returned" =>
    \/ lsRet = Nil
    \/ lsRet = ErrListServices(LSProjectID)
    \/ lsRet = ErrProcessing(ContextCanceled) /\ lsCtxDone

(* -------------------- claims on calculateStatistics -------------------- *)
\* the services of a report, each named by its project and its position
StatsPairs(rep) ==
  UNION { { <<id, i>> : i \in DOMAIN rep.Services[id] } :
          id \in DOMAIN rep.Services }

ServiceAt(rep, pair) == rep.Services[pair[1]][pair[2]]

\* the services called `name` whose usage was fetched with status SUCCESS
Succeeded(rep, name) ==
  { pair \in StatsPairs(rep) :
      /\ ServiceAt(rep, pair).Name = name
      /\ ServiceAt(rep, pair).Usage # NilUsage
      /\ ServiceAt(rep, pair).Usage.Status = UsageStatusSuccess }

RECURSIVE SumRequests(_, _)
SumRequests(rep, pairs) ==
  IF pairs = {} THEN 0
  ELSE LET pair == CHOOSE x \in pairs : TRUE
       IN  ServiceAt(rep, pair).Usage.RequestCount
             + SumRequests(rep, pairs \ {pair})

ServiceNames(rep) == { ServiceAt(rep, pair).Name : pair \in StatsPairs(rep) }

\* C12: calculateStatistics run twice on the same report leaves identical
\* Statistics, the order of ServiceDetails included, whatever order the maps
\* are ranged over and also when two services tie on ProjectCount and
\* TotalRequests.
C12_Deterministic ==
  Len(statsOut) = 2 => statsOut[1] = statsOut[2]

\* the part of C12 that does hold: the two runs agree on everything but the
\* order of ServiceDetails
C12_SameUpToOrder ==
  Len(statsOut) = 2 =>
    /\ [statsOut[1] EXCEPT !.ServiceDetails = <<>>]
         = [statsOut[2] EXCEPT !.ServiceDetails = <<>>]
    /\ { statsOut[1].ServiceDetails[k] : k \in DOMAIN statsOut[1].ServiceDetails }
         = { statsOut[2].ServiceDetails[k] : k \in DOMAIN statsOut[2].ServiceDetails }

C14_DetailsSorted ==
  \A r \in DOMAIN statsOut :
    \A k \in 1..(Len(statsOut[r].ServiceDetails) - 1) :
      LET a == statsOut[r].ServiceDetails[k]
          b == statsOut[r].ServiceDetails[k + 1]
      IN  \/ a.ProjectCount > b.ProjectCount
          \/ a.ProjectCount = b.ProjectCount
               /\ a.TotalRequests >= b.TotalRequests

\* a service enabled in more projects stands before one with more requests
C14_Witness ==
  /\ Len(statsOut) >= 1
  /\ Len(statsOut[1].ServiceDetails) = 2
  /\ statsOut[1].ServiceDetails[1].ProjectCount
       > statsOut[1].ServiceDetails[2].ProjectCount
  /\ statsOut[1].ServiceDetails[1].TotalRequests
       < statsOut[1].ServiceDetails[2].TotalRequests

(* ------------------- claims on the whole run, continued ---------------- *)
\* the report after the filter loop, before any task has run
AfterListing ==
  [ NewReport EXCEPT
      !.Statistics.TotalProjects = Len(projects),
      !.Statistics.ExcludedProjects = CountExcluded(projects),
      !.Projects = validProjects,
      !.Statistics.ValidProjects = Len(validProjects) ]

\* the report of a run in which the tasks from i on record their answers
\* one after another, in the order of validProjects
RECURSIVE SequentialReport(_, _)
SequentialReport(rep, i) ==
  IF i > Len(validProjects) THEN rep
  ELSE SequentialReport(
         RecordOutcome(rep, ProjectOf(i).ID, tServices[i], tErr[i],
                       tDuration[i]), i + 1)

\* the Statistics one run on the answers of this run ends with, whatever
\* its Concurrency: the same value for the same answers
ReferenceStatistics ==
  CHOOSE stats \in
    UNION calculateStatistics(SequentialReport(AfterListing, 1)) : TRUE

DetailSet(stats) ==
  { stats.ServiceDetails[k] : k \in DOMAIN stats.ServiceDetails }

\* C11: the Statistics a run of Audit returns are fixed by the answers of
\* its collaborators (the project list, each project's services and usage,
\* or error), the same for Concurrency 1 as for Concurrency 3 and for every
\* interleaving of the tasks.
C11_SameStatistics ==
  (apc = "returned" /\ listErr = Nil /\ retErr = Nil
     /\ UniqueIDs(validProjects)) =>
    report.Statistics = ReferenceStatistics

\* the part of C11 that does hold: the maps, every count and the set of
\* details are fixed by the answers; only the order of ServiceDetails is not
C11_SameUpToOrder ==
  (apc = "returned" /\ listErr = Nil /\ retErr = Nil
     /\ UniqueIDs(validProjects)) =>
    /\ report.Services = SequentialReport(AfterListing, 1).Services
    /\ report.SkippedProjects
         = SequentialReport(AfterListing, 1).SkippedProjects
    /\ [report.Statistics EXCEPT !.ServiceDetails = <<>>]
         = [ReferenceStatistics EXCEPT !.ServiceDetails = <<>>]
    /\ DetailSet(report.Statistics) = DetailSet(ReferenceStatistics)

\* C15: when the audit command completes successfully, GenerateReport has
\* been invoked on every configured reporter, one after another in the order
\* they were configured, each with the finished report (all tasks joined,
\* statistics computed).
C15_ReportersInvoked ==
  (cmdpc = "exited" /\ retErr = Nil /\ listErr = Nil) =>
    generated = [k \in DOMAIN reporters |->
                   [reporter |-> reporters[k], report |-> report]]

\* GetServiceUsage has no return with a non-nil error, so the branch of
\* lines 83-85 is never taken: every result the collector stores carries
\* the Usage GetServiceUsage built, with one of the three named statuses.
UsageStatusAlwaysSet ==
  \A i \in DOMAIN results :
    results[i] # ZeroService =>
      /\ results[i].Usage # NilUsage
      /\ results[i].Usage.Status
           \in {UsageStatusSuccess, UsageStatusNoAccess, UsageStatusError}

\* the tasks inside the critical section of lines 98-114
InCritical == { i \in Tasks : tpc[i] = "critical" }

\* what the tasks write in the report
TaskWritten(rep) ==
  << rep.Services, rep.SkippedProjects, rep.ProjectDurations,
     rep.Statistics.SkippedProjects >>

\* C17: a task writes report.Services, report.SkippedProjects,
\* report.ProjectDurations, report.Statistics.SkippedProjects and processed
\* only while it holds the mutex; at most one task is in the critical
\* section; a task that has left it has released the mutex.
C17_WritesUnderMutex ==
  /\ [](/\ Cardinality(InCritical) <= 1
        /\ \A i \in Tasks : (mutex = i) <=> (tpc[i] = "critical"))
  /\ [][ (TaskWritten(report') # TaskWritten(report)
            \/ processed' # processed) =>
           \E i \in Tasks :
             /\ mutex = i
             /\ tpc[i] = "critical"
             /\ tpc'[i] = "release"
             /\ mutex' = 0 ]_vars

\* one task is in the critical section while another waits for the mutex
C17_Witness ==
  \E i, j \in Tasks :
    /\ i # j
    /\ tpc[i] = "critical"
    /\ mutex = i
    /\ tpc[j] = "lock"

\* C18: calculateStatistics runs at most once, and only when every task
\* that was scheduled has finished and the mutex is free; from then on no
\* task writes to the report or to processed.
C18_StatisticsOnceAfterJoin ==
  /\ [](/\ statsRuns <= 1
        /\ (apc = "statistics" \/ statsRuns = 1) =>
              /\ spawned = Len(validProjects)
              /\ AllTasksDone
              /\ mutex = 0
              /\ processed = Len(validProjects))
  /\ [][ (apc = "statistics" \/ statsRuns >= 1) =>
           /\ TaskWritten(report') = TaskWritten(report)
           /\ processed' = processed ]_vars

C18_Witness ==
  /\ statsRuns = 1
  /\ Len(validProjects) = 2
  /\ processed = 2
  /\ DOMAIN report.Services # {}

\* C19: when Audit returns after the tasks have joined, the keys of
\* report.ProjectDurations are the IDs of the valid projects, those whose
\* ListServices failed included.
C19_DurationsForAllValid ==
  (apc = "returned" /\ listErr = Nil) =>
    DOMAIN report.ProjectDurations
      = { validProjects[i].ID : i \in DOMAIN validProjects }

C19_Witness ==
  /\ apc = "returned"
  /\ listErr = Nil
  /\ UniqueIDs(validProjects)
  /\ Cardinality(DOMAIN report.ProjectDurations) = 2
  /\ Cardinality(DOMAIN report.Services) = 1
  /\ Cardinality(DOMAIN report.SkippedProjects) = 1

\* the projects ListProjects returned that IsValidProject rejects
ExcludedPositions ==
  { k \in DOMAIN projects : ~IsValidProject(projects[k]) }

\* C20: a project that IsValidProject rejects is counted in
\* ExcludedProjects and appears nowhere else: no task is made for it,
\* ListServices is never called with its ID, its ID is no key of
\* report.Services, report.SkippedProjects or report.ProjectDurations, and it
\* is no element of report.Projects.
C20_ExcludedOnlyCounted ==
  /\ (apc # "listProjects" /\ listErr = Nil) =>
       /\ report.Statistics.ExcludedProjects = Cardinality(ExcludedPositions)
       /\ report.Statistics.ValidProjects
            = Len(projects) - Cardinality(ExcludedPositions)
       /\ spawned <= Len(projects) - Cardinality(ExcludedPositions)
  /\ \A k \in ExcludedPositions :
       /\ \A i \in 1..spawned : ProjectOf(i) # projects[k]
       /\ projects[k].ID \notin lsCalls
       /\ projects[k].ID \notin DOMAIN report.Services
       /\ projects[k].ID \notin DOMAIN report.SkippedProjects
       /\ projects[k].ID \notin DOMAIN report.ProjectDurations
       /\ \A j \in DOMAIN report.Projects : report.Projects[j] # projects[k]

C20_Witness ==
  /\ apc = "returned"
  /\ listErr = Nil
  /\ Cardinality(ExcludedPositions) = 1
  /\ Len(projects) = 2
  /\ processed = 1
  /\ report.Statistics.ExcludedProjects = 1

\* C21: a task that is blocked waiting for a permit when the context is
\* cancelled never acquires one afterwards and never calls ListServices.
\* (cancelAt.waiting: at the cancellation every goroutine had been started
\* and those still waiting for a permit were blocked on the full channel.)
C21_WaitersUnwind ==
  [][ cancelAt.waiting =>
        \A i \in Tasks :
          tpc[i] = "acquire" => tpc'[i] \notin {"listServices"} ]_vars

\* C25: a task performs no I/O while it holds the mutex: none of its writes
\* to the log output is made between Lock and Unlock.
C25_NoIOUnderMutex ==
  \A write \in log : write.holder # write.task

(* ------------------ claims on ListServices, continued ------------------ *)
\* C22: the dispatch goroutine has closed workChan whenever it has exited,
\* after the last service as well as on cancellation.
C22_DispatcherCloses ==
  dpc = "done" => workClosed

\* C26: once ListServices has returned the result slice, no goroutine of
\* that call writes to it any more.
C26_NoWriteAfterReturn ==
  [][ (lpc = "returned" /\ lsRet = Nil) => results' = results ]_vars
\* the workers whose call of GetServiceUsage is in progress
InFlight == { w \in DOMAIN wpc : wpc[w] = "usage" }

PairsNamed(rep, name) ==
  { pair \in StatsPairs(rep) : ServiceAt(rep, pair).Name = name }

\* how often x occurs in the sequence xs
Occurrences(xs, x) == Cardinality({ k \in DOMAIN xs : xs[k] = x })

\* C24: for every Services map, UniqueServices is the number of distinct
\* service names; there is one ServiceDetail per distinct name; its
\* ProjectCount is the number of (project, service) pairs with that name and
\* the length of EnabledIn; EnabledIn holds the projects of those pairs in
\* lexicographic order; TotalRequests is the sum of RequestCount over the
\* name's SUCCESS pairs; ServicesWithNoUsage is the number of SUCCESS pairs
\* with RequestCount 0.
C24_ClosedForm ==
  \A r \in DOMAIN statsOut :
    LET out == statsOut[r]
        names == ServiceNames(statsReport)
    IN  /\ out.UniqueServices = Cardinality(names)
        /\ Len(out.ServiceDetails) = Cardinality(names)
        /\ { out.ServiceDetails[k].Name : k \in DOMAIN out.ServiceDetails }
             = names
        /\ \A k \in DOMAIN out.ServiceDetails :
             LET d == out.ServiceDetails[k]
                 pairs == PairsNamed(statsReport, d.Name)
             IN  /\ d.ProjectCount = Cardinality(pairs)
                 /\ d.ProjectCount = Len(d.EnabledIn)
                 /\ \A id \in DOMAIN statsReport.Services :
                      Occurrences(d.EnabledIn, id)
                        = Cardinality({ pair \in pairs : pair[1] = id })
                 /\ \A j \in 1..(Len(d.EnabledIn) - 1) :
                      ~StringLess(d.EnabledIn[j + 1], d.EnabledIn[j])
                 /\ d.TotalRequests
                      = SumRequests(statsReport,
                                    Succeeded(statsReport, d.Name))
        /\ out.ServicesWithNoUsage
             = Cardinality(
                 { pair \in StatsPairs(statsReport) :
                     /\ ServiceAt(statsReport, pair).Usage # NilUsage
                     /\ ServiceAt(statsReport, pair).Usage
                          = Usage(0, UsageStatusSuccess) })

\* statistics of a report with two names over two projects: one service is
\* enabled in both projects with 2 requests in all, another has SUCCESS and 0
C24_Witness ==
  /\ Len(statsOut) >= 1
  /\ statsOut[1].UniqueServices = 2
  /\ statsOut[1].ServicesWithNoUsage = 1
  /\ \E k \in DOMAIN statsOut[1].ServiceDetails :
       /\ statsOut[1].ServiceDetails[k].EnabledIn = << <<"a">>, <<"b">> >>
       /\ statsOut[1].ServiceDetails[k].TotalRequests = 2

=============================================================================
